---- MODULE Spec2Model ----
(***************************************************************************)
(* Client-side navigation of the leptos router: the path-based provider    *)
(* (location/history.rs, BrowserRouter) and the hash-based provider        *)
(* (location/hash.rs, HashRouter), run against a model of the browser's    *)
(* session history.                                                        *)
(*                                                                         *)
(* Text is a sequence of one-character strings, so that parsing and        *)
(* formatting of URLs are computed, not assumed.                           *)
(***************************************************************************)
EXTENDS Integers, Sequences, FiniteSets, TLC

\* ------------------------------------------------------------------ bounds

\* The number of navigate calls of one run.
MaxNav == 2

\* The length of the longest path normalize is applied to.
MaxLen == 4

\* ------------------------------------------------------------- text helpers

RECURSIVE IndexFrom(_, _, _)
\* The first index >= i of s that holds character c; 0 when there is none.
IndexFrom(s, c, i) ==
    IF i > Len(s) THEN 0
    ELSE IF s[i] = c THEN i
    ELSE IndexFrom(s, c, i + 1)

IndexOf(s, c) == IndexFrom(s, c, 1)

Before(s, i) == IF i = 0 THEN s ELSE SubSeq(s, 1, i - 1)
From(s, i) == IF i = 0 THEN <<>> ELSE SubSeq(s, i, Len(s))
After(s, i) == IF i = 0 THEN <<>> ELSE SubSeq(s, i + 1, Len(s))

\* str::strip_prefix(c): Some(rest) when s starts with c, encoded as the pair
\* <<TRUE, rest>>, and None as <<FALSE, <<>> >>.
strip_prefix(s, c) ==
    IF Len(s) > 0 /\ s[1] = c THEN <<TRUE, Tail(s)>> ELSE <<FALSE, <<>> >>

RECURSIVE trim_start_matches(_, _)
\* str::trim_start_matches(c): s without its leading run of c.
trim_start_matches(s, c) ==
    IF Len(s) > 0 /\ s[1] = c THEN trim_start_matches(Tail(s), c) ELSE s

RECURSIVE SplitOn(_, _)
\* s split at every c.
SplitOn(s, c) ==
    LET i == IndexOf(s, c)
    IN  IF i = 0 THEN <<s>> ELSE <<Before(s, i)>> \o SplitOn(After(s, i), c)

\* str::starts_with.
starts_with(s, p) == Len(s) >= Len(p) /\ SubSeq(s, 1, Len(p)) = p

RECURSIVE SplitAny(_, _)
\* str::split on a set of characters: s split at every character of cs.
SplitAny(s, cs) ==
    LET hits == {i \in 1..Len(s) : s[i] \in cs}
    IN  IF hits = {} THEN <<s>>
        ELSE LET i == CHOOSE k \in hits : \A j \in hits : k <= j
             IN  <<Before(s, i)>> \o SplitAny(After(s, i), cs)

\* The percent-escapes of the alphabet: the escape of "a", which decodeURI and
\* decodeURIComponent both decode, and the escape of the reserved "#", which
\* decodeURIComponent alone decodes.
EscapeOfA == <<"%", "6", "1">>
EscapeOfHash == <<"%", "2", "3">>

RECURSIVE PercentDecode(_, _)
\* s with its percent-escapes decoded; reserved characters too when component.
PercentDecode(s, component) ==
    IF s = <<>> THEN <<>>
    ELSE IF starts_with(s, EscapeOfA)
         THEN <<"a">> \o PercentDecode(SubSeq(s, 4, Len(s)), component)
    ELSE IF component /\ starts_with(s, EscapeOfHash)
         THEN <<"#">> \o PercentDecode(SubSeq(s, 4, Len(s)), component)
    ELSE <<Head(s)>> \o PercentDecode(Tail(s), component)

\* UrlContext::unescape (decodeURIComponent) and UrlContext::unescape_minimal
\* (decodeURI).
unescape(s) == PercentDecode(s, TRUE)

unescape_minimal(s) == PercentDecode(s, FALSE)

\* ------------------------------------------------------------------- Url

\* UrlSearchParams of a search string, collected in order into the ParamsMap:
\* the pairs <<key, value>>.
search_params_from_web_url(query) ==
    LET body  == IF Len(query) > 0 /\ query[1] = "?" THEN Tail(query) ELSE query
        parts == SelectSeq(SplitOn(body, "&"), LAMBDA x : x # <<>>)
    IN  [i \in 1..Len(parts) |->
            LET e == IndexOf(parts[i], "=")
            IN  <<Before(parts[i], e), After(parts[i], e)>>]

\* Url { origin, path, search, search_params, hash } read off a platform URL
\* the way BrowserRouter::current and BrowserRouter::parse_with_base do.
UrlOfWeb(w) ==
    [origin        |-> w.origin,
     path          |-> w.pathname,
     search        |-> LET sp == strip_prefix(w.search, "?")
                       IN  IF sp[1] THEN sp[2] ELSE <<>>,
     search_params |-> search_params_from_web_url(w.search),
     hash          |-> w.hash]

\* ------------------------------------------------------------ the platform

\* The document's origin (one opaque character stands for scheme and host).
DocOrigin == <<"o">>

\* The ids of the elements of the document.
Elements == {<<"h">>}

\* The platform's URL parser on an absolute href: what web_sys::Url and
\* window.location expose as origin, pathname, search and hash. search keeps its
\* "?" and hash its "#"; an empty query or fragment reads as "".
WebUrl(href) ==
    LET h    == IndexOf(href, "#")
        frag == From(href, h)
        r1   == Before(href, h)
        q    == IndexOf(r1, "?")
        qry  == From(r1, q)
        r2   == Before(r1, q)
        p    == IndexOf(r2, "/")
    IN  [origin   |-> Before(r2, p),
         pathname |-> IF p = 0 THEN <<"/">> ELSE From(r2, p),
         search   |-> IF Len(qry) <= 1 THEN <<>> ELSE qry,
         hash     |-> IF Len(frag) <= 1 THEN <<>> ELSE frag]

\* The origin of another site, and the first character of an absolute href whose
\* host is malformed, which the platform's parser rejects.
OtherOrigin == <<"x">>
MalformedHost == "["

\* web_sys::Url::new_with_base(url, base): Ok(the URL), encoded as <<TRUE, URL>>,
\* or Err, encoded as <<FALSE, <<>> >>. An empty, path-absolute, query or fragment
\* reference is resolved against base; any other url is absolute.
Url_new_with_base(url, base) ==
    IF url # <<>> /\ url[1] = MalformedHost THEN <<FALSE, <<>> >>
    ELSE IF url = <<>> \/ url[1] \in {"/", "?", "#"} THEN <<TRUE, WebUrl(base \o url)>>
    ELSE <<TRUE, WebUrl(url)>>

\* web_sys::Url::href: the URL serialized.
Url_href(w) == w.origin \o w.pathname \o w.search \o w.hash

\* BrowserRouter::parse_with_base(url, base) where Url::new_with_base is Ok; it
\* panics (unwrap) where that is Err.
parse_with_base(href, base) == UrlOfWeb(Url_new_with_base(href, base)[2])

\* Url::to_full_path.
to_full_path(u) ==
    u.path
    \o (IF u.search # <<>> THEN <<"?">> \o u.search ELSE <<>>)
    \o (IF u.hash # <<>>
        THEN (IF u.hash[1] # "#" THEN <<"#">> ELSE <<>>) \o u.hash
        ELSE <<>>)

\* ------------------------------------------------- the two providers' URLs

\* UrlContext::parse / UrlContext::parse_with_default_base: a string parsed into a
\* Url by the platform's parser.
UrlContext_parse(s) == UrlOfWeb(WebUrl(s))

parse_with_default_base(value) == UrlContext_parse(DocOrigin \o value)

\* BrowserRouter::current on the platform location w.
BrowserRouter_current(w) == UrlOfWeb(w)

\* HashRouter::current on the platform location w.
HashRouter_current(w) ==
    LET new == trim_start_matches(w.hash, "#")
    IN  UrlContext_parse(w.origin \o new)

\* HashRouter::browser_to_router_url.
browser_to_router_url(u) ==
    LET sp == strip_prefix(u.hash, "#")
    IN  [u EXCEPT !.path = IF sp[1] THEN sp[2] ELSE <<"/">>,
                  !.hash = <<>>]

\* HashRouter::router_to_browser_url.
router_to_browser_url(u) ==
    [u EXCEPT !.hash = <<"#">> \o u.path,
              !.path = <<"/">>]

\* The url argument BrowserRouter::complete_navigation hands to the History API
\* (loc.value itself), as the location the platform resolves it to.
BrowserRouter_href(value) == WebUrl(DocOrigin \o value)

\* The url argument HashRouter::complete_navigation hands to the History API.
HashRouter_href(value) ==
    LET b == router_to_browser_url(parse_with_default_base(value))
    IN  WebUrl(b.origin \o to_full_path(b))

\* scroll_to_el(loc_scroll) on the platform location w: which scroll it does.
scroll_to_el(w, loc_scroll) ==
    LET decoded == Tail(w.hash)
    IN  IF w.hash # <<>> /\ decoded \in Elements THEN "into_view"
        ELSE IF loc_scroll THEN "top"
        ELSE "none"

\* ------------------------------------------------------------------ inputs

\* The hrefs navigations go to (router space), and the page's first location.
Targets ==
    { <<"/", "a">>,
      <<"/", "a", "?", "q", "#", "h">>,
      <<"/", "b">> }

StartHref == DocOrigin \o <<"/">>

\* The LocationChange the anchor-click handler builds for a parsed href.
LocationChange(u, replace, scroll, state) ==
    [value   |-> unescape_minimal(u.path)
                 \o (IF u.search = <<>> THEN <<>> ELSE <<"?">>)
                 \o unescape(u.search)
                 \o unescape(u.hash),
     replace |-> replace,
     scroll  |-> scroll,
     state   |-> state]

\* The (replace, scroll, state) of the LocationChanges issued.
Changes ==
    { <<FALSE, TRUE, "undefined">>,
      <<TRUE, FALSE, "s1">> }

\* A plain click on an anchor with the given resolved href (a.href()): the
\* MouseEvent's flags, whether its composed path holds an anchor, and the
\* anchor's attributes (target, the presence of state, rel, download, noscroll,
\* data-noscroll) and script-set properties (replace, state; "undefined" when
\* absent).
PlainClick(href) ==
    [href              |-> href,
     replace           |-> "undefined",
     state             |-> "undefined",
     default_prevented |-> FALSE,
     button            |-> 0,
     meta_key          |-> FALSE,
     alt_key           |-> FALSE,
     ctrl_key          |-> FALSE,
     shift_key         |-> FALSE,
     anchor            |-> TRUE,
     target            |-> <<>>,
     has_state         |-> FALSE,
     rel               |-> <<>>,
     download          |-> FALSE,
     noscroll          |-> FALSE,
     data_noscroll     |-> FALSE]

\* The rel keyword the handler looks for.
External == <<"e", "x", "t", "e", "r", "n", "a", "l">>

\* The resolved hrefs of the anchors clicked: three of the document's origin, one
\* of another site, one the parser rejects, and none.
Hrefs ==
    { DocOrigin \o <<"/", "a">>,
      DocOrigin \o <<"/", "a", "?", "q", "#", "h">>,
      DocOrigin \o <<"/", "b">>,
      OtherOrigin \o <<"/", "a">>,
      <<MalformedHost, "/", "a">>,
      <<>> }

\* The click events delivered: a plain click on each href, and the clicks that
\* differ from a plain one in one flag, attribute or property.
Events ==
    LET p   == PlainClick(DocOrigin \o <<"/", "a", "?", "q", "#", "h">>)
        bad == PlainClick(<<MalformedHost, "/", "a">>)
    IN  { PlainClick(h) : h \in Hrefs }
        \cup { [p EXCEPT !.default_prevented = TRUE],
               [p EXCEPT !.button = 1],
               [p EXCEPT !.meta_key = TRUE],
               [p EXCEPT !.alt_key = TRUE],
               [p EXCEPT !.ctrl_key = TRUE],
               [p EXCEPT !.shift_key = TRUE],
               [p EXCEPT !.anchor = FALSE],
               [p EXCEPT !.target = <<"_">>],
               [p EXCEPT !.download = TRUE],
               [p EXCEPT !.rel = External],
               [p EXCEPT !.rel = <<"n", " ">> \o External],
               [p EXCEPT !.rel = External \o <<"\t", "n">>],
               [p EXCEPT !.rel = <<"n">>],
               [p EXCEPT !.rel = External \o <<"n">>],
               [p EXCEPT !.replace = "true"],
               [p EXCEPT !.replace = "yes"],
               [p EXCEPT !.state = "s1"],
               [p EXCEPT !.noscroll = TRUE],
               [p EXCEPT !.data_noscroll = TRUE],
               [bad EXCEPT !.download = TRUE],
               [bad EXCEPT !.target = <<"_">>],
               [PlainClick(<<>>) EXCEPT !.has_state = TRUE] }

\* The router bases init is given: none, and "/a".
RouterBases == { <<>>, <<"/", "a">> }

\* The locations redirect is called with: two of the document's origin, one of
\* another site, and one that cannot be resolved.
RedirectLocs ==
    { <<"/", "b">>,
      <<"/", "a", "?", "q">>,
      OtherOrigin \o <<"/", "a">>,
      <<MalformedHost, "/", "a">> }

\* The router-space Urls the hash provider's conversions are given: the parses
\* of a path, with or without a query, with or without a fragment.
RouterUrls ==
    { parse_with_base(pa \o qu \o fr, DocOrigin) :
        pa \in { <<"/">>, <<"/", "a">>, <<"/", "a", "/", "b">> },
        qu \in { <<>>, <<"?", "q">>, <<"?", "q", "=", "1">> },
        fr \in { <<>>, <<"#", "h">> } }

\* The browser-space Urls browser_to_router_url is given: the document path "/",
\* with or without a query, and a hash that is empty, "#", "#f" or "#/f".
BrowserUrls ==
    { [parse_with_base(<<"/">> \o qu, DocOrigin) EXCEPT !.hash = fr] :
        qu \in { <<>>, <<"?", "q">> },
        fr \in { <<>>, <<"#">>, <<"#", "f">>, <<"#", "/", "f">> } }

\* ------------------------------------------------------------------- state

VARIABLES
    mode,                \* "path": BrowserRouter, "hash": HashRouter
    url,                 \* the URL signal
    pending_navigation,  \* 0: None; n: Some(sender of navigation n's channel)
    path_stack,          \* the path-stack
    is_back,             \* the back-flag
    hist,                \* the browser's session history: [state, location] entries
    cur,                 \* the index of the browser's current entry
    scrolled,            \* the scroll the last complete_navigation performed
    navs,                \* the navigate calls so far, in issuance order
    commitLog,           \* the navigations that called complete_navigation, in order
    fault,               \* whether a read of the platform location has failed
    op,                  \* the operation that made the last step
    router_base,         \* the base init was given ("" when None)
    click,               \* the last click event and what its handler did
    redirects,           \* the redirect calls so far, in order
    call                 \* the conversion applied last: its argument and result

vars ==
    <<mode, url, pending_navigation, path_stack, is_back, hist, cur, scrolled,
      navs, commitLog, fault, op, router_base, click, redirects, call>>

\* The state of the page around the provider, and the provider's own.
page == <<router_base, click, redirects, call>>

provider ==
    <<mode, url, pending_navigation, path_stack, is_back, hist, cur, scrolled,
      navs, commitLog, fault>>

\* The operation of a step: its kind, the navigate call it belongs to (0: none)
\* and the outcome of its read of the platform location (TRUE when it reads none).
Op(kind, nav, ok) == [kind |-> kind, nav |-> nav, ok |-> ok]

\* The outcomes of a read of the platform location: Ok (TRUE) or Err (FALSE). At
\* most one read of a run fails.
ReadOutcomes == IF fault THEN {TRUE} ELSE BOOLEAN

\* current() of the provider in use, on the platform location w.
current(w) ==
    IF mode = "path" THEN BrowserRouter_current(w) ELSE HashRouter_current(w)

\* The location the History API is given by complete_navigation.
href_of(value) ==
    IF mode = "path" THEN BrowserRouter_href(value) ELSE HashRouter_href(value)

Location == hist[cur].location

\* new(): both reads of current() in the constructor; a failure of the first is an
\* error and no provider, a failure of the second leaves the path-stack empty.
InitProvider ==
    /\ mode \in {"path", "hash"}
    /\ hist = << [state |-> "undefined", location |-> WebUrl(StartHref)] >>
    /\ cur = 1
    /\ url = current(WebUrl(StartHref))
    /\ \E ok \in BOOLEAN :
          /\ path_stack = IF ok THEN << current(WebUrl(StartHref)) >> ELSE <<>>
          /\ fault = ~ok
    /\ pending_navigation = 0
    /\ is_back = FALSE
    /\ scrolled = "none"
    /\ navs = <<>>
    /\ commitLog = <<>>
    /\ op = Op("new", 0, TRUE)

\* What a click handler did with event ev: the navigate call it made (0: none),
\* whether it called preventDefault and whether it panicked.
ClickDone(nav, ev, prevented, panicked) ==
    [nav |-> nav, ev |-> ev, prevented |-> prevented, panicked |-> panicked]

\* A conversion fn applied to arg with result ret; orig is the argument the chain
\* of conversions started from.
Call(fn, arg, ret, orig) == [fn |-> fn, arg |-> arg, ret |-> ret, orig |-> orig]

\* The page before any click, redirect or conversion.
InitPage ==
    /\ click = ClickDone(0, PlainClick(<<>>), FALSE, FALSE)
    /\ redirects = <<>>
    /\ call = Call("none", <<>>, <<>>, <<>>)

\* The provider constructed and initialised without a base.
Init ==
    /\ InitProvider
    /\ InitPage
    /\ router_base = <<>>

\* -------------------------------------------------------------- operations

\* The record of navigate call number n: its arguments, the channel of its
\* one-shot sender ("armed" in the slot, "fired" by send, "dropped" unsent), its
\* task's position, and what the call found (the signal's value and the slot).
NavRecord(new_url, loc, sp) ==
    [new_url   |-> new_url,
     loc       |-> loc,
     same_path |-> sp,
     chan      |-> IF sp THEN "dropped" ELSE "armed",
     pc        |-> "await",
     prev      |-> url,
     slot      |-> pending_navigation]

\* same_path as it would be if read after url.set(new_url): the signal already
\* holds new_url.
same_path_after_set(curr, new_url) ==
    new_url.origin = new_url.origin /\ new_url.path = new_url.path

\* same_path as it would be if it compared whole Urls.
same_path_whole_url(curr, new_url) == curr = new_url

\* The same_path test of the navigate closure.
same_path(curr, new_url) ==
    curr.origin = new_url.origin /\ curr.path = new_url.path

\* The resumed task's test as it would be if it compared origin and path only.
still_current_path_only(curr, new_url) ==
    curr.origin = new_url.origin /\ curr.path = new_url.path

\* The resumed task's test `curr == new_url` (Url's derived PartialEq).
still_current(curr, new_url) == curr = new_url

\* The history operation as it would be if replace were ignored: always a push.
history_after_push_only(replace, e) ==
    [entries |-> Append(SubSeq(hist, 1, cur), e), index |-> cur + 1]

\* History::replace_state_with_url / push_state_with_url with entry e.
history_after(replace, e) ==
    IF replace
    THEN [entries |-> [hist EXCEPT ![cur] = e], index |-> cur]
    ELSE [entries |-> Append(SubSeq(hist, 1, cur), e), index |-> cur + 1]

\* complete_navigation as it would be if it read current() before the history
\* operation.
complete_navigation_read_first(loc, ok) ==
    LET e  == [state |-> loc.state, location |-> href_of(loc.value)]
        ha == history_after(loc.replace, e)
        w  == ha.entries[ha.index].location
    IN  /\ hist' = ha.entries
        /\ cur' = ha.index
        /\ fault' = (fault \/ ~ok)
        /\ IF ok
           THEN /\ path_stack' = Append(path_stack, current(Location))
                /\ is_back' = FALSE
           ELSE UNCHANGED <<path_stack, is_back>>
        /\ scrolled' = scroll_to_el(w, loc.scroll)

\* complete_navigation(loc); ok is the outcome of its read of current().
complete_navigation(loc, ok) ==
    LET e  == [state |-> loc.state, location |-> href_of(loc.value)]
        ha == history_after(loc.replace, e)
        w  == ha.entries[ha.index].location
    IN  /\ hist' = ha.entries
        /\ cur' = ha.index
        /\ fault' = (fault \/ ~ok)
        /\ IF ok
           THEN /\ path_stack' = Append(path_stack, current(w))
                /\ is_back' = FALSE
           ELSE UNCHANGED <<path_stack, is_back>>
        /\ scrolled' = scroll_to_el(w, loc.scroll)

\* navigate as it would be if it set the URL signal only where it commits.
navigate_late_set(new_url, loc) ==
    LET sp == same_path(url, new_url)
        n  == Len(navs) + 1
    IN  /\ Len(navs) < MaxNav
        /\ url' = IF sp THEN new_url ELSE url
        /\ IF sp
           THEN /\ \E ok \in ReadOutcomes :
                      /\ complete_navigation(loc, ok)
                      /\ op' = Op("navigate", n, ok)
                /\ commitLog' = Append(commitLog, n)
                /\ pending_navigation' = pending_navigation
           ELSE /\ UNCHANGED <<hist, cur, path_stack, is_back, scrolled, commitLog, fault>>
                /\ op' = Op("navigate", n, TRUE)
                /\ pending_navigation' = n
        /\ navs' = Append(
              [i \in DOMAIN navs |->
                  IF ~sp /\ i = pending_navigation
                  THEN [navs[i] EXCEPT !.chan = "dropped"]
                  ELSE navs[i]],
              NavRecord(new_url, loc, sp))
        /\ UNCHANGED mode

\* The navigate closure of init, called with (new_url, loc).
\* navigate as it would be if a same-path call cancelled the pending navigation.
navigate_clears_slot(new_url, loc) ==
    LET sp == same_path(url, new_url)
        n  == Len(navs) + 1
    IN  /\ Len(navs) < MaxNav
        /\ url' = new_url
        /\ IF sp
           THEN /\ \E ok \in ReadOutcomes :
                      /\ complete_navigation(loc, ok)
                      /\ op' = Op("navigate", n, ok)
                /\ commitLog' = Append(commitLog, n)
                /\ pending_navigation' = 0
           ELSE /\ UNCHANGED <<hist, cur, path_stack, is_back, scrolled, commitLog, fault>>
                /\ op' = Op("navigate", n, TRUE)
                /\ pending_navigation' = n
        /\ navs' = Append(
              [i \in DOMAIN navs |->
                  IF i = pending_navigation
                  THEN [navs[i] EXCEPT !.chan = "dropped"]
                  ELSE navs[i]],
              NavRecord(new_url, loc, sp))
        /\ UNCHANGED mode

navigate(new_url, loc) ==
    LET sp == same_path(url, new_url)
        n  == Len(navs) + 1
    IN  /\ Len(navs) < MaxNav
        /\ url' = new_url
        /\ IF sp
           THEN /\ \E ok \in ReadOutcomes :
                      /\ complete_navigation(loc, ok)
                      /\ op' = Op("navigate", n, ok)
                /\ commitLog' = Append(commitLog, n)
                /\ pending_navigation' = pending_navigation
           ELSE /\ UNCHANGED <<hist, cur, path_stack, is_back, scrolled, commitLog, fault>>
                /\ op' = Op("navigate", n, TRUE)
                /\ pending_navigation' = n
        /\ navs' = Append(
              [i \in DOMAIN navs |->
                  IF ~sp /\ i = pending_navigation
                  THEN [navs[i] EXCEPT !.chan = "dropped"]
                  ELSE navs[i]],
              NavRecord(new_url, loc, sp))
        /\ UNCHANGED mode

\* ready_to_complete as it would be if it sent on the sender without taking it
\* out of the slot.
ready_to_complete_no_take ==
    /\ IF pending_navigation # 0
       THEN navs' = [navs EXCEPT ![pending_navigation].chan = "fired"]
       ELSE UNCHANGED navs
    /\ pending_navigation' = pending_navigation
    /\ op' = Op("ready_to_complete", pending_navigation, TRUE)
    /\ UNCHANGED <<mode, url, path_stack, is_back, hist, cur, scrolled, commitLog, fault>>
    /\ UNCHANGED page

\* ready_to_complete as it would be if it took the sender and dropped it unsent.
ready_to_complete_no_send ==
    /\ IF pending_navigation # 0
       THEN /\ navs' = [navs EXCEPT ![pending_navigation].chan = "dropped"]
            /\ pending_navigation' = 0
       ELSE UNCHANGED <<navs, pending_navigation>>
    /\ op' = Op("ready_to_complete", pending_navigation, TRUE)
    /\ UNCHANGED <<mode, url, path_stack, is_back, hist, cur, scrolled, commitLog, fault>>
    /\ UNCHANGED page

\* ready_to_complete().
ready_to_complete ==
    /\ IF pending_navigation # 0
       THEN /\ navs' = [navs EXCEPT ![pending_navigation].chan = "fired"]
            /\ pending_navigation' = 0
       ELSE UNCHANGED <<navs, pending_navigation>>
    /\ op' = Op("ready_to_complete", pending_navigation, TRUE)
    /\ UNCHANGED <<mode, url, path_stack, is_back, hist, cur, scrolled, commitLog, fault>>
    /\ UNCHANGED page

\* The task of navigate call n runs to its end: the async block, once its
\* receiver is resolved (sent to, or its sender dropped).
resume(n) ==
    /\ n \in DOMAIN navs
    /\ navs[n].pc = "await"
    /\ navs[n].same_path \/ navs[n].chan \in {"fired", "dropped"}
    /\ navs' = [navs EXCEPT ![n].pc = "done"]
    /\ IF /\ ~navs[n].same_path
          /\ navs[n].chan = "fired"
          /\ still_current(url, navs[n].new_url)
       THEN /\ \E ok \in ReadOutcomes :
                  /\ complete_navigation(navs[n].loc, ok)
                  /\ op' = Op("resume", n, ok)
            /\ commitLog' = Append(commitLog, n)
       ELSE /\ UNCHANGED <<hist, cur, path_stack, is_back, scrolled, commitLog, fault>>
            /\ op' = Op("resume", n, TRUE)
    /\ UNCHANGED <<mode, url, pending_navigation>>
    /\ UNCHANGED page

\* is_navigating_back as it would be if it compared with the last entry.
is_navigating_back_last(stack, new_url) ==
    \/ Len(stack) = 1
    \/ (Len(stack) >= 2 /\ stack[Len(stack)] = new_url)

\* is_navigating_back of the popstate callback.
is_navigating_back(stack, new_url) ==
    \/ Len(stack) = 1
    \/ (Len(stack) >= 2 /\ stack[Len(stack) - 1] = new_url)

\* The popstate callback as it would be if a back navigation took the last entry
\* off the path-stack.
popstate_pops(i) ==
    /\ i \in 1..Len(hist)
    /\ i # cur
    /\ cur' = i
    /\ \E ok \in ReadOutcomes :
          /\ IF ok
             THEN LET new_url == current(hist[i].location)
                      back    == is_navigating_back(path_stack, new_url)
                  IN  /\ is_back' = back
                      /\ url' = new_url
                      /\ path_stack' = IF back /\ Len(path_stack) >= 2
                                       THEN SubSeq(path_stack, 1, Len(path_stack) - 1)
                                       ELSE path_stack
             ELSE UNCHANGED <<is_back, url, path_stack>>
          /\ fault' = (fault \/ ~ok)
          /\ op' = Op("popstate", 0, ok)
    /\ UNCHANGED <<mode, pending_navigation, hist, scrolled, navs, commitLog>>
    /\ UNCHANGED page

\* The popstate callback as it would be if it cancelled the pending navigation.
popstate_cancels(i) ==
    /\ i \in 1..Len(hist)
    /\ i # cur
    /\ cur' = i
    /\ \E ok \in ReadOutcomes :
          /\ IF ok
             THEN LET new_url == current(hist[i].location)
                  IN  /\ is_back' = is_navigating_back(path_stack, new_url)
                      /\ url' = new_url
             ELSE UNCHANGED <<is_back, url>>
          /\ fault' = (fault \/ ~ok)
          /\ op' = Op("popstate", 0, ok)
    /\ pending_navigation' = 0
    /\ navs' = [n \in DOMAIN navs |->
                  IF n = pending_navigation
                  THEN [navs[n] EXCEPT !.chan = "dropped"]
                  ELSE navs[n]]
    /\ UNCHANGED <<mode, path_stack, hist, scrolled, commitLog>>
    /\ UNCHANGED page

\* The browser traverses to entry i and fires popstate; ok is the outcome of the
\* callback's read of current().
popstate(i) ==
    /\ i \in 1..Len(hist)
    /\ i # cur
    /\ cur' = i
    /\ \E ok \in ReadOutcomes :
          /\ IF ok
             THEN LET new_url == current(hist[i].location)
                  IN  /\ is_back' = is_navigating_back(path_stack, new_url)
                      /\ url' = new_url
             ELSE UNCHANGED <<is_back, url>>
          /\ fault' = (fault \/ ~ok)
          /\ op' = Op("popstate", 0, ok)
    /\ UNCHANGED <<mode, pending_navigation, path_stack, hist, scrolled, navs, commitLog>>
    /\ UNCHANGED page

\* A navigate call as the anchor-click handler issues it.
Navigate ==
    /\ \E t \in Targets, ch \in Changes :
          LET u == parse_with_base(t, DocOrigin)
          IN  navigate(u, LocationChange(u, ch[1], ch[2], ch[3]))
    /\ UNCHANGED page

ReadyToComplete == ready_to_complete

Resume == \E n \in 1..MaxNav : resume(n)

Popstate == \E i \in 1..(MaxNav + 1) : popstate(i)

\* ------------------------------------------------------- the click handler

\* The handler's first test: the event's default is prevented, or the click is
\* not a plain click of the primary button.
click_is_modified(ev) ==
    \/ ev.default_prevented
    \/ ev.button # 0
    \/ ev.meta_key
    \/ ev.alt_key
    \/ ev.ctrl_key
    \/ ev.shift_key

\* rel.split([' ', '\t']).any(|p| p == "external").
rel_is_external(rel) ==
    LET tokens == SplitAny(rel, {" ", "\t"})
    IN  \E i \in DOMAIN tokens : tokens[i] = External

\* The handler's last test as it would be if it checked the origin only.
leaves_router_origin_only(u, path_name) == u.origin # DocOrigin

\* The handler's last test: the parsed url leaves the document's origin or the
\* router's base path.
leaves_router(u, path_name) ==
    \/ u.origin # DocOrigin
    \/ /\ router_base # <<>>
       /\ path_name # <<>>
       /\ ~starts_with(path_name, router_base)

\* The scroll of the change as it would be if data-noscroll were not looked at.
change_scroll_attr_only(ev) == ~ev.noscroll

\* The scroll of the LocationChange built for a click.
change_scroll(ev) == ~ev.noscroll /\ ~ev.data_noscroll

\* The replace of the LocationChange: the anchor's replace property where it is
\* a boolean, false otherwise.
change_replace(ev) == IF ev.replace \in {"true", "false"} THEN ev.replace = "true" ELSE FALSE

\* The closure handle_anchor_click returns, called with event ev.
handle_anchor_click(ev) ==
    LET bail == /\ click' = ClickDone(0, ev, FALSE, FALSE)
                /\ op' = Op("click", 0, TRUE)
                /\ UNCHANGED provider
        r    == Url_new_with_base(ev.href, DocOrigin)
    IN  /\ UNCHANGED <<router_base, redirects, call>>
        /\ IF click_is_modified(ev) THEN bail
           ELSE IF ~ev.anchor THEN bail
           ELSE IF ev.target # <<>> \/ (ev.href = <<>> /\ ~ev.has_state) THEN bail
           ELSE IF ev.download \/ rel_is_external(ev.rel) THEN bail
           ELSE IF ~r[1]
                THEN /\ click' = ClickDone(0, ev, FALSE, TRUE)
                     /\ op' = Op("click", 0, TRUE)
                     /\ UNCHANGED provider
           ELSE LET u         == parse_with_base(ev.href, DocOrigin)
                    path_name == unescape_minimal(u.path)
                IN  IF leaves_router(u, path_name) THEN bail
                    ELSE /\ click' = ClickDone(Len(navs) + 1, ev, TRUE, FALSE)
                         /\ navigate(u, LocationChange(u, change_replace(ev),
                                                       change_scroll(ev), ev.state))

Click == \E ev \in Events : handle_anchor_click(ev)

\* ---------------------------------------------------------------- redirect

\* resolve_redirect_url(loc): Some(url), encoded as <<TRUE, url>>, or None.
resolve_redirect_url(loc) == Url_new_with_base(loc, DocOrigin)

\* The record of a redirect call: its argument, the href it resolved to, what it
\* did with it ("raf": a callback given to request_animation_frame, "set_href":
\* location().set_href, "none") and how many times its callback ran.
Redirected(href, loc, via) == [href |-> href, loc |-> loc, via |-> via, ran |-> 0]

\* redirect as it would be if it always used set_href.
redirect_set_href(loc) ==
    LET r == resolve_redirect_url(loc)
    IN  /\ Len(redirects) < MaxNav
        /\ redirects' = Append(redirects,
              IF ~r[1] THEN Redirected(<<>>, loc, "none")
              ELSE Redirected(Url_href(r[2]), loc, "set_href"))
        /\ op' = Op("redirect", 0, TRUE)
        /\ UNCHANGED provider
        /\ UNCHANGED <<router_base, click, call>>

\* redirect(loc).
redirect(loc) ==
    LET r == resolve_redirect_url(loc)
    IN  /\ Len(redirects) < MaxNav
        /\ redirects' = Append(redirects,
              IF ~r[1] THEN Redirected(<<>>, loc, "none")
              ELSE IF r[2].origin = DocOrigin
                   THEN Redirected(Url_href(r[2]), loc, "raf")
                   ELSE Redirected(Url_href(r[2]), loc, "set_href"))
        /\ op' = Op("redirect", 0, TRUE)
        /\ UNCHANGED provider
        /\ UNCHANGED <<router_base, click, call>>

\* The navigate function of use_navigate, called with (href, Default::default()):
\* a client-side navigation to href.
use_navigate(href) ==
    LET u == parse_with_base(href, DocOrigin)
    IN  navigate(u, LocationChange(u, FALSE, TRUE, "undefined"))

\* An animation frame: the oldest callback given to request_animation_frame and
\* not yet run, runs.
animation_frame ==
    \E i \in DOMAIN redirects :
        /\ redirects[i].via = "raf" /\ redirects[i].ran = 0
        /\ \A j \in 1..(i - 1) : ~(redirects[j].via = "raf" /\ redirects[j].ran = 0)
        /\ use_navigate(redirects[i].href)
        /\ redirects' = [redirects EXCEPT ![i].ran = 1]
        /\ UNCHANGED <<router_base, click, call>>

Redirect == \E loc \in RedirectLocs : redirect(loc)

AnimationFrame == animation_frame

\* ----------------------------------------------------------- path resolution

\* The ASCII letters and digits: the characters a scheme may consist of.
AsciiAlphanumeric ==
    { "a", "b", "c", "d", "e", "f", "g", "h", "i", "j", "k", "l", "m",
      "n", "o", "p", "q", "r", "s", "t", "u", "v", "w", "x", "y", "z",
      "A", "B", "C", "D", "E", "F", "G", "H", "I", "J", "K", "L", "M",
      "N", "O", "P", "Q", "R", "S", "T", "U", "V", "W", "X", "Y", "Z",
      "0", "1", "2", "3", "4", "5", "6", "7", "8", "9" }

\* str::find(pat): the least index at which pat occurs in s, counted from 1;
\* 0 when pat does not occur (None).
str_find(s, pat) ==
    LET hits == {i \in 1..(Len(s) + 1) :
                    i + Len(pat) - 1 <= Len(s) /\ SubSeq(s, i, i + Len(pat) - 1) = pat}
    IN  IF hits = {} THEN 0 ELSE CHOOSE i \in hits : \A j \in hits : i <= j

\* str::split_once(pat): Some((before, after)) around the first occurrence of
\* pat, encoded as <<TRUE, before, after>>, and None as <<FALSE, <<>>, <<>> >>.
split_once(s, pat) ==
    LET i == str_find(s, pat)
    IN  IF i = 0 THEN <<FALSE, <<>>, <<>> >>
        ELSE <<TRUE, SubSeq(s, 1, i - 1), SubSeq(s, i + Len(pat), Len(s))>>

RECURSIVE TrailingRun(_, _)
\* The length of the run of c that s ends with.
TrailingRun(s, c) ==
    IF Len(s) > 0 /\ s[Len(s)] = c THEN 1 + TrailingRun(SubSeq(s, 1, Len(s) - 1), c)
    ELSE 0

begins_with_query(text) == Len(text) > 0 /\ text[1] = "?"

begins_with_query_or_hash(text) == Len(text) > 0 /\ text[1] \in {"?", "#"}

\* normalize that cuts one slash off the end instead of all but one.
normalize_trim_one(path, omit_slash) ==
    LET s0 == trim_start_matches(path, "/")
        trim_end == IF TrailingRun(s0, "/") > 1 THEN 1 ELSE 0
        s == SubSeq(s0, 1, Len(s0) - trim_end)
    IN  IF s = <<>> \/ omit_slash \/ begins_with_query_or_hash(s) THEN s
        ELSE <<"/">> \o s

\* normalize that leaves the trailing slashes as they are.
normalize_keep_trailing(path, omit_slash) ==
    LET s == trim_start_matches(path, "/")
    IN  IF s = <<>> \/ omit_slash \/ begins_with_query_or_hash(s) THEN s
        ELSE <<"/">> \o s

\* normalize: the leading slashes trimmed, the trailing run of slashes cut to
\* one, and one slash put in front unless the rest is empty, the slash is to be
\* omitted or the rest begins with a query or a hash.
normalize(path, omit_slash) ==
    LET s0 == trim_start_matches(path, "/")
        run == TrailingRun(s0, "/")
        trim_end == IF run > 0 THEN run - 1 ELSE 0
        s == SubSeq(s0, 1, Len(s0) - trim_end)
    IN  IF s = <<>> \/ omit_slash \/ begins_with_query_or_hash(s) THEN s
        ELSE <<"/">> \o s

\* has_scheme that takes any prefix of "://" for a scheme.
has_scheme_any_prefix(path) ==
    \/ starts_with(path, <<"/", "/">>)
    \/ starts_with(path, <<"t", "e", "l", ":">>)
    \/ starts_with(path, <<"m", "a", "i", "l", "t", "o", ":">>)
    \/ split_once(path, <<":", "/", "/">>)[1]

has_scheme(path) ==
    \/ starts_with(path, <<"/", "/">>)
    \/ starts_with(path, <<"t", "e", "l", ":">>)
    \/ starts_with(path, <<"m", "a", "i", "l", "t", "o", ":">>)
    \/ LET parts == split_once(path, <<":", "/", "/">>)
       IN  parts[1] /\ \A i \in DOMAIN parts[2] : parts[2][i] \in AsciiAlphanumeric

\* An Option<&str>: None, and Some(s).
None == <<FALSE, <<>> >>
Some(s) == <<TRUE, s>>

\* resolve_path that resolves a relative path next to `from` under the base.
resolve_path_sibling(base, path, from) ==
    IF has_scheme(path) THEN path
    ELSE LET base_path == normalize(base, FALSE)
             result == base_path
             result_empty == result = <<>>
             prefix == IF result_empty THEN <<"/">> ELSE result
         IN  prefix \o normalize(path, result_empty)

\* resolve_path that takes `from` also for a path with a leading slash.
resolve_path_from_first(base, path, from) ==
    IF has_scheme(path) THEN path
    ELSE LET base_path == normalize(base, FALSE)
             from_path == normalize(from[2], FALSE)
             result ==
                 IF from[1]
                 THEN IF str_find(from_path, base_path) # 1
                      THEN base_path \o from_path
                      ELSE from_path
                 ELSE base_path
             result_empty == result = <<>>
             prefix == IF result_empty THEN <<"/">> ELSE result
         IN  prefix \o normalize(path, result_empty)

\* resolve_path that puts the base in front of `from` whenever there is one.
resolve_path_base_always(base, path, from) ==
    IF has_scheme(path) THEN path
    ELSE LET base_path == normalize(base, FALSE)
             from_path == normalize(from[2], FALSE)
             result ==
                 IF from[1]
                 THEN IF starts_with(path, <<"/">>) THEN base_path
                      ELSE base_path \o from_path
                 ELSE base_path
             result_empty == result = <<>>
             prefix == IF result_empty THEN <<"/">> ELSE result
         IN  prefix \o normalize(path, result_empty)

resolve_path(base, path, from) ==
    IF has_scheme(path) THEN path
    ELSE LET base_path == normalize(base, FALSE)
             from_path == normalize(from[2], FALSE)
             result ==
                 IF from[1]
                 THEN IF starts_with(path, <<"/">>) THEN base_path
                      ELSE IF str_find(from_path, base_path) # 1
                           THEN base_path \o from_path
                           ELSE from_path
                 ELSE base_path
             result_empty == result = <<>>
             prefix == IF result_empty THEN <<"/">> ELSE result
         IN  prefix \o normalize(path, result_empty)

\* ------------------------------------------------------- the specifications

Next == Navigate \/ ReadyToComplete \/ Resume \/ Popstate

Spec == Init /\ [][Next]_vars

\* The provider initialised with or without a base, under click events: what
\* the click handler does within each event.
InitClick ==
    /\ InitProvider
    /\ InitPage
    /\ router_base \in RouterBases

NextClick == Click

SpecClick == InitClick /\ [][NextClick]_vars

\* The hash provider's conversions applied to a Url drawn at the start: one
\* conversion, or router_to_browser_url and then browser_to_router_url on its
\* result.
InitConvert ==
    /\ InitProvider
    /\ router_base = <<>>
    /\ click = ClickDone(0, PlainClick(<<>>), FALSE, FALSE)
    /\ redirects = <<>>
    /\ \E u \in RouterUrls \cup BrowserUrls : call = Call("none", u, u, u)

RouterToBrowser ==
    /\ call.fn = "none"
    /\ call.arg \in RouterUrls
    /\ call' = Call("router_to_browser_url", call.arg,
                    router_to_browser_url(call.arg), call.orig)
    /\ UNCHANGED <<provider, op, router_base, click, redirects>>

BrowserToRouter ==
    /\ \/ /\ call.fn = "none"
          /\ call.arg \in BrowserUrls
          /\ call' = Call("browser_to_router_url", call.arg,
                          browser_to_router_url(call.arg), call.orig)
       \/ /\ call.fn = "router_to_browser_url"
          /\ call' = Call("browser_to_router_url", call.ret,
                          browser_to_router_url(call.ret), call.orig)
    /\ UNCHANGED <<provider, op, router_base, click, redirects>>

NextConvert == RouterToBrowser \/ BrowserToRouter

SpecConvert == InitConvert /\ [][NextConvert]_vars

\* The provider under redirect calls and animation frames.
NextRedirect == Redirect \/ AnimationFrame \/ ReadyToComplete \/ Resume

SpecRedirect == Init /\ [][NextRedirect]_vars

\* The provider constructed in a document whose session history already holds
\* an earlier same-document entry, at /a, behind the current one: new() reads
\* the current location only.
EarlierPath == <<"/", "a">>

InitRevisit ==
    /\ mode \in {"path", "hash"}
    /\ hist = << [state |-> "undefined", location |-> href_of(EarlierPath)],
                 [state |-> "undefined", location |-> WebUrl(StartHref)] >>
    /\ cur = 2
    /\ url = current(WebUrl(StartHref))
    /\ \E ok \in BOOLEAN :
          /\ path_stack = IF ok THEN << current(WebUrl(StartHref)) >> ELSE <<>>
          /\ fault = ~ok
    /\ pending_navigation = 0
    /\ is_back = FALSE
    /\ scrolled = "none"
    /\ navs = <<>>
    /\ commitLog = <<>>
    /\ op = Op("new", 0, TRUE)
    /\ InitPage
    /\ router_base = <<>>

SpecRevisit == InitRevisit /\ [][Next]_vars

\* The spawned task of navigate call n leaves its await: the step of resume(n),
\* told by the task's position alone.
task_runs(n) ==
    /\ n \in DOMAIN navs
    /\ navs[n].pc = "await"
    /\ navs[n].same_path \/ navs[n].chan \in {"fired", "dropped"}
    /\ navs' = [navs EXCEPT ![n].pc = "done"]

\* The provider under an executor that polls every spawned task whose receiver
\* is resolved: a task that can resume does so in the end.
SpecLive == Init /\ [][Next]_vars /\ \A n \in 1..MaxNav : WF_navs(task_runs(n))

\* The paths normalize is applied to: every string of slashes, a letter, "?"
\* and "#" up to the length bound.
PathAlphabet == {"/", "a", "?", "#"}

NormalizePaths == UNION {[1..k -> PathAlphabet] : k \in 0..MaxLen}

\* The arguments of resolve_path: bases with and without slashes around them,
\* `from` absent, empty, under the base, next to the base and away from it, and
\* paths absolute, relative, with a query or a hash, and with each kind of scheme.
ResolveBases ==
    { <<>>, <<"/">>, <<"/", "a", "p", "p">>, <<"a", "p", "p", "/">>,
      <<"/", "/", "a", "p", "p", "/", "/">> }

ResolveFroms ==
    { None, Some(<<>>), Some(<<"/">>), Some(<<"/", "a", "p", "p">>),
      Some(<<"/", "a", "p", "p", "/", "y">>),
      Some(<<"/", "a", "p", "p", "l", "i", "c", "a", "t", "i", "o", "n", "/", "y">>),
      Some(<<"/", "o", "t", "h", "e", "r">>),
      Some(<<"o", "/", "a", "p", "p", "/">>) }

ResolvePaths ==
    { <<>>, <<"x">>, <<"/", "x">>, <<"x", "/">>, <<"/", "x", "/", "/">>,
      <<"x", "/", "z">>, <<"?", "q">>, <<"#", "h">>, <<"/", "?", "q">>,
      <<"/", "/", "x">>, <<"t", "e", "l", ":", "1">>,
      <<"m", "a", "i", "l", "t", "o", ":", "a">>,
      <<"a", ":", "/", "/", "b">>, <<"h", "2", ":", "/", "/", "b", "/">>,
      <<":", "/", "/", "b">>, <<"a", "/", "b", ":", "/", "/", "c">>,
      <<"a", "-", "b", ":", "/", "/", "c">>,
      <<"x", "?", "u", "=", "h", "t", "t", "p", ":", "/", "/", "y">>,
      <<"/", "x", "?", "u", "=", "a", ":", "/", "/", "y">>,
      <<"t", "e", "l">>, <<"a", ":", "/", "b">> }

\* The path functions applied to arguments drawn at the start: normalize once,
\* normalize on its own result, has_scheme, resolve_path.
InitPath ==
    /\ InitProvider
    /\ router_base = <<>>
    /\ click = ClickDone(0, PlainClick(<<>>), FALSE, FALSE)
    /\ redirects = <<>>
    /\ \/ \E p \in NormalizePaths, omit_slash \in BOOLEAN :
             call = Call("none", <<p, omit_slash>>, <<>>, <<p, omit_slash>>)
       \/ \E base \in ResolveBases, path \in ResolvePaths, from \in ResolveFroms :
             call = Call("none", <<base, path, from>>, <<>>, <<base, path, from>>)

Normalize ==
    /\ call.fn = "none"
    /\ Len(call.arg) = 2
    /\ call' = Call("normalize", call.arg, normalize(call.arg[1], call.arg[2]),
                    call.orig)
    /\ UNCHANGED <<provider, op, router_base, click, redirects>>

NormalizeAgain ==
    /\ call.fn = "normalize"
    /\ call' = Call("normalize_again", <<call.ret, call.arg[2]>>,
                    normalize(call.ret, call.arg[2]), call.orig)
    /\ UNCHANGED <<provider, op, router_base, click, redirects>>

HasScheme ==
    /\ call.fn = "none"
    /\ Len(call.arg) = 3
    /\ call' = Call("has_scheme", call.arg, has_scheme(call.arg[2]), call.orig)
    /\ UNCHANGED <<provider, op, router_base, click, redirects>>

ResolvePath ==
    /\ call.fn = "none"
    /\ Len(call.arg) = 3
    /\ call' = Call("resolve_path", call.arg,
                    resolve_path(call.arg[1], call.arg[2], call.arg[3]), call.orig)
    /\ UNCHANGED <<provider, op, router_base, click, redirects>>

NextPath == Normalize \/ NormalizeAgain \/ HasScheme \/ ResolvePath

SpecPath == InitPath /\ [][NextPath]_vars

\* ---------------------------------------------------------- what is observed

\* How many times navigation n called complete_navigation, by the log.
CommitsOf(log, n) == Cardinality({i \in DOMAIN log : log[i] = n})

\* Navigate call n found a URL signal whose origin or path differs from its target.
DiffPath(n) ==
    \/ navs[n].prev.origin # navs[n].new_url.origin
    \/ navs[n].prev.path # navs[n].new_url.path

\* The step is navigate call n.
NavigateStep(n) == Len(navs) = n - 1 /\ Len(navs') = n

\* The step runs the task of navigate call n.
ResumeStep(n) == n \in DOMAIN navs /\ navs[n].pc = "await" /\ navs'[n].pc = "done"

\* The step is a ready_to_complete call.
ReadyStep == op'.kind = "ready_to_complete"

\* The step is a popstate event.
PopstateStep == op'.kind = "popstate" /\ cur' # cur

\* The step called complete_navigation, for navigate call n.
CommitStep(n) == commitLog' = Append(commitLog, n)

\* ------------------------------------------------------------------ claims

\* C1: a navigation that a later navigate call found pending (its sender still in
\* the slot, ready_to_complete not yet fired for it) never calls
\* complete_navigation, whatever the later call's target is.
C1_SupersededNeverCommits ==
    \A b \in DOMAIN navs :
        navs[b].slot # 0 => CommitsOf(commitLog, navs[b].slot) = 0

\* C2: complete_navigation calls land in issuance order: the log of committing
\* navigations is strictly increasing in the navigate call number.
C2_CommitsInIssuanceOrder ==
    \A i, j \in DOMAIN commitLog : i < j => commitLog[i] < commitLog[j]

\* C3: a navigate call to another origin or path commits nothing before its
\* channel is fired, a channel is fired by ready_to_complete only, and while no
\* fired channel's task is still to run, every step that is neither a navigate
\* nor a ready_to_complete call leaves the history entries and the path-stack
\* as they are.
C3_NoCommitBeforeReady ==
    /\ [](\A n \in DOMAIN navs :
            (DiffPath(n) /\ navs[n].chan # "fired") => CommitsOf(commitLog, n) = 0)
    /\ [][ /\ \A n \in DOMAIN navs :
                (navs[n].chan # "fired" /\ navs'[n].chan = "fired") => ReadyStep
           /\ ( /\ \A n \in DOMAIN navs :
                      ~(navs[n].chan = "fired" /\ navs[n].pc = "await")
                /\ ~ReadyStep
                /\ Len(navs') = Len(navs) )
              => (hist' = hist /\ path_stack' = path_stack) ]_vars

\* C3 witness: a navigation to another path is armed and unfired, a popstate
\* event has just been handled, and the navigation has committed nothing.
C3_Witness ==
    /\ op.kind = "popstate"
    /\ pending_navigation # 0
    /\ DiffPath(pending_navigation)
    /\ navs[pending_navigation].chan = "armed"
    /\ CommitsOf(commitLog, pending_navigation) = 0

\* C4: when the task of a fired channel runs, it calls complete_navigation
\* exactly when the URL signal equals the Url it proposed, in all five fields;
\* otherwise history, path-stack and back-flag stay as they are.
C4_ResumeCommitsIffCurrent ==
    [][ \A n \in DOMAIN navs :
          (ResumeStep(n) /\ navs[n].chan = "fired") =>
             /\ CommitStep(n) <=>
                  /\ url.origin = navs[n].new_url.origin
                  /\ url.path = navs[n].new_url.path
                  /\ url.search = navs[n].new_url.search
                  /\ url.search_params = navs[n].new_url.search_params
                  /\ url.hash = navs[n].new_url.hash
             /\ ~CommitStep(n) =>
                  /\ commitLog' = commitLog
                  /\ hist' = hist /\ cur' = cur
                  /\ path_stack' = path_stack
                  /\ is_back' = is_back ]_vars

\* C4 witness: a fired task has run while the signal held another Url of the same
\* origin and path, and did not commit.
C4_Witness ==
    \E n \in DOMAIN navs :
        /\ op = Op("resume", n, TRUE)
        /\ navs[n].chan = "fired"
        /\ url # navs[n].new_url
        /\ url.path = navs[n].new_url.path
        /\ CommitsOf(commitLog, n) = 0

\* C5: ready_to_complete on an empty slot changes nothing; on an armed slot it
\* empties the slot and fires that one channel, which was unfired; so a second
\* call in a row finds the slot empty, and a fired channel is never in the slot.
C5_ReadyToComplete ==
    /\ [](pending_navigation # 0 => navs[pending_navigation].chan = "armed")
    /\ [][ ReadyStep =>
             /\ pending_navigation' = 0
             /\ UNCHANGED <<url, hist, cur, path_stack, is_back, scrolled, commitLog>>
             /\ IF pending_navigation = 0
                THEN navs' = navs
                ELSE /\ navs[pending_navigation].chan = "armed"
                     /\ navs' = [navs EXCEPT ![pending_navigation].chan = "fired"] ]_vars

\* C5 witness: ready_to_complete was called on an empty slot after an earlier call
\* had fired a channel.
C5_Witness ==
    /\ op = Op("ready_to_complete", 0, TRUE)
    /\ \E n \in DOMAIN navs : navs[n].chan = "fired"

\* C6: a navigate call whose target has the signal's origin and path calls
\* complete_navigation once, inside the call (the count is 1 in the state the
\* call returns in and in every later one, also after its task has run), and
\* its channel is never armed or fired.
C6_SamePathCommitsOnce ==
    \A n \in DOMAIN navs :
        ~DiffPath(n) =>
            /\ CommitsOf(commitLog, n) = 1
            /\ navs[n].chan = "dropped"

\* C6 witness: the task of a same-path navigate call has run to its end, a
\* ready_to_complete call was made since, and the call has committed once.
C6_Witness ==
    \E n \in DOMAIN navs :
        /\ ~DiffPath(n)
        /\ navs[n].pc = "done"
        /\ op.kind = "ready_to_complete"
        /\ CommitsOf(commitLog, n) = 1

\* C7: right after a navigate call to another origin or path, the URL signal is
\* new_url and the slot holds the call's own, unfired sender, while the history
\* entries, the current entry and the path-stack are as before the call.
C7_OptimisticUpdate ==
    [][ \A n \in DOMAIN navs' :
          ( /\ NavigateStep(n)
            /\ \/ url.origin # navs'[n].new_url.origin
               \/ url.path # navs'[n].new_url.path ) =>
             /\ url' = navs'[n].new_url
             /\ pending_navigation' = n
             /\ navs'[n].chan = "armed"
             /\ hist' = hist /\ cur' = cur
             /\ path_stack' = path_stack
             /\ commitLog' = commitLog ]_vars

\* C7 witness: the state a navigate call to another path returns in, with an
\* earlier navigation already committed.
C7_Witness ==
    /\ op.kind = "navigate"
    /\ DiffPath(op.nav)
    /\ pending_navigation = op.nav
    /\ url = navs[op.nav].new_url
    /\ url # current(Location)
    /\ commitLog # <<>>

\* The browser-space location of a LocationChange's value: the value itself under
\* the path provider; under the hash provider the document path "/", the value's
\* query, and the value's path as the fragment.
BrowserSpace(value) ==
    LET w == WebUrl(DocOrigin \o value)
    IN  IF mode = "path"
        THEN w
        ELSE [origin   |-> w.origin,
              pathname |-> <<"/">>,
              search   |-> w.search,
              hash     |-> <<"#">> \o w.pathname]

\* The last step called complete_navigation (op.nav is the caller).
JustCommitted ==
    /\ commitLog # <<>>
    /\ op.nav = commitLog[Len(commitLog)]
    /\ \/ op.kind = "navigate"
       \/ op.kind = "resume" /\ navs[op.nav].chan = "fired"

\* C8: a complete_navigation call does one history operation: with replace it
\* overwrites the current entry and keeps the length and the position; without,
\* it adds one entry right after the current one and moves to it. The entry
\* holds change.state and the browser-space form of change.value.
C8_OneHistoryOperation ==
    [][ \A n \in DOMAIN navs' :
          CommitStep(n) =>
             LET loc  == navs'[n].loc
                 want == [state |-> loc.state, location |-> BrowserSpace(loc.value)]
             IN  IF loc.replace
                 THEN /\ Len(hist') = Len(hist)
                      /\ cur' = cur
                      /\ \A i \in DOMAIN hist : i # cur => hist'[i] = hist[i]
                      /\ hist'[cur] = want
                 ELSE /\ cur' = cur + 1
                      /\ Len(hist') = cur + 1
                      /\ \A i \in 1..cur : hist'[i] = hist[i]
                      /\ hist'[cur + 1] = want ]_vars

\* C8 witness: a replacing complete_navigation has just overwritten the second
\* entry of a history that an earlier one had pushed to.
C8_Witness ==
    /\ JustCommitted
    /\ navs[op.nav].loc.replace
    /\ Len(hist) = 2 /\ cur = 2
    /\ hist[cur].state = "s1"

\* C9: a complete_navigation call whose read of current() succeeds appends one
\* entry to the path-stack, the Url read from the location as it is after the
\* history operation, and the back-flag is false after it.
C9_CommitAppendsCurrent ==
    [][ \A n \in DOMAIN navs' :
          (CommitStep(n) /\ op'.ok) =>
             /\ path_stack' = Append(path_stack, current(hist'[cur'].location))
             /\ is_back' = FALSE ]_vars

\* C9 witness: a replacing complete_navigation has just appended the Url it read,
\* which differs from the entry before it.
C9_Witness ==
    /\ JustCommitted
    /\ op.ok
    /\ navs[op.nav].loc.replace
    /\ Len(path_stack) = 3
    /\ path_stack[3] = current(Location)
    /\ path_stack[3] # path_stack[2]
    /\ ~is_back

\* C10: a popstate event whose read of current() succeeds sets the back-flag to
\* true exactly when the path-stack holds one entry or the Url read equals the
\* second-to-last entry, and then sets the URL signal to the Url read.
C10_PopstateBackFlag ==
    [][ (PopstateStep /\ op'.ok) =>
          LET new_url == current(hist'[cur'].location)
              k       == Len(path_stack)
          IN  /\ is_back' = TRUE <=>
                    (k = 1 \/ (k >= 2 /\ new_url = path_stack[k - 1]))
              /\ (k >= 2 /\ new_url # path_stack[k - 1]) => is_back' = FALSE
              /\ url' = new_url ]_vars

\* C10 witness: a popstate event delivered the last path-stack entry, which is
\* not the second-to-last, and the back-flag is false.
C10_Witness ==
    /\ op = Op("popstate", 0, TRUE)
    /\ Len(path_stack) >= 2
    /\ url = path_stack[Len(path_stack)]
    /\ url # path_stack[Len(path_stack) - 1]
    /\ ~is_back

\* C10 witness of the other case: the Url delivered is the second-to-last entry
\* and the back-flag is true.
C10_WitnessBack ==
    /\ op = Op("popstate", 0, TRUE)
    /\ Len(path_stack) >= 3
    /\ url = path_stack[Len(path_stack) - 1]
    /\ is_back

\* C11: after a popstate event whose read of current() succeeds, the back-flag is
\* true exactly when the event moved the browser to an earlier entry of its
\* session history than the one it was on, and false when it moved forward.
C11_BackFlagTracksHistory ==
    [][ (PopstateStep /\ op'.ok) => (is_back' <=> cur' < cur) ]_vars

\* s is a prefix of t.
IsPrefix(s, t) == Len(s) <= Len(t) /\ SubSeq(t, 1, Len(s)) = s

\* C12: every step leaves the path-stack a prefix of what it becomes; a navigate
\* call that does not commit, a ready_to_complete call and a popstate event leave
\* it as it is; it changes only in a step that calls complete_navigation, by one
\* entry added at its end.
C12_PathStackAppendOnly ==
    [][ /\ IsPrefix(path_stack, path_stack')
        /\ (ReadyStep \/ PopstateStep) => path_stack' = path_stack
        /\ \A n \in DOMAIN navs' :
              (NavigateStep(n) /\ ~CommitStep(n)) => path_stack' = path_stack
        /\ path_stack' # path_stack =>
              /\ \E n \in DOMAIN navs' : CommitStep(n)
              /\ Len(path_stack') = Len(path_stack) + 1 ]_vars

\* C12 witness: popstate events have taken the browser back by two entries, to
\* the first one, and the path-stack still holds all three Urls.
C12_Witness ==
    /\ op = Op("popstate", 0, TRUE)
    /\ cur = 1
    /\ Len(hist) = 3
    /\ Len(path_stack) = 3
    /\ url = path_stack[1]

\* The step is a click event handled (click.ev is the event).
ClickStep == click' # click \/ op'.kind = "click"

\* The anchor's href resolves to a URL, and the URL it resolves to.
Resolves(href) == Url_new_with_base(href, DocOrigin)[1]

Resolved(href) == Url_new_with_base(href, DocOrigin)[2]

\* The text rel, read as a list of tokens separated by spaces or tabs, holds the
\* token "external".
HasExternalToken(rel) ==
    \E i \in 1..Len(rel) :
        /\ i + Len(External) - 1 <= Len(rel)
        /\ SubSeq(rel, i, i + Len(External) - 1) = External
        /\ (i = 1 \/ rel[i - 1] \in {" ", "\t"})
        /\ (i + Len(External) > Len(rel) \/ rel[i + Len(External)] \in {" ", "\t"})

\* The click is a plain one: default not prevented, primary button, no modifier.
IsPlain(ev) ==
    /\ ~ev.default_prevented
    /\ ev.button = 0
    /\ ~ev.meta_key /\ ~ev.alt_key /\ ~ev.ctrl_key /\ ~ev.shift_key

\* One of the conditions under which the browser is to handle the click holds.
BrowserHandles(ev) ==
    \/ ~IsPlain(ev)
    \/ ~ev.anchor
    \/ ev.target # <<>>
    \/ ev.download
    \/ HasExternalToken(ev.rel)
    \/ Resolves(ev.href) /\ Resolved(ev.href).origin # DocOrigin
    \/ /\ router_base # <<>>
       /\ Resolves(ev.href)
       /\ ~starts_with(Resolved(ev.href).pathname, router_base)

C14_ClickNavigates ==
    [][ ( /\ ClickStep
          /\ IsPlain(click'.ev)
          /\ click'.ev.anchor
          /\ click'.ev.href # <<>>
          /\ ~BrowserHandles(click'.ev)
          /\ Resolves(click'.ev.href) ) =>
           LET ev == click'.ev
               n  == Len(navs) + 1
           IN  /\ click'.prevented
               /\ Len(navs') = n
               /\ click'.nav = n
               /\ navs'[n].loc.replace = (ev.replace = "true")
               /\ navs'[n].loc.scroll = ~(ev.noscroll \/ ev.data_noscroll)
               /\ navs'[n].loc.state = ev.state ]_vars

\* C14 witness: a click on an anchor with a data-noscroll attribute has made the
\* second navigate call, with scroll false.
C14_Witness ==
    /\ click.prevented
    /\ click.nav = 2
    /\ Len(navs) = 2
    /\ click.ev.data_noscroll
    /\ ~navs[2].loc.scroll
    /\ ~navs[2].loc.replace

\* C15: when the clicked anchor's href cannot be parsed into a URL, the handler
\* does not panic, calls neither preventDefault nor navigate, and leaves the
\* provider's state as it is.
C15_BadHrefAbandoned ==
    [][ (ClickStep /\ click'.ev.anchor /\ ~Resolves(click'.ev.href)) =>
           /\ ~click'.panicked
           /\ ~click'.prevented
           /\ click'.nav = 0
           /\ UNCHANGED provider ]_vars

\* The step is a redirect call (the last entry of redirects' is its record).
RedirectStep == Len(redirects') = Len(redirects) + 1

\* The step runs the animation-frame callback of redirect call i.
FrameStep(i) == i \in DOMAIN redirects /\ redirects[i].ran = 0 /\ redirects'[i].ran = 1

\* C16: a redirect call makes no navigate call and changes nothing of the
\* provider itself; for a loc that resolves to a URL of the document's origin it
\* leaves one callback for the next animation frame and calls no set_href, and
\* when that callback runs it makes exactly one navigate call, to the resolved
\* URL, and never runs again; for a loc that resolves to another origin it calls
\* set_href once, with the resolved href, and no callback of it ever navigates;
\* for a loc that does not resolve it does neither.
C16_Redirect ==
    /\ [](\A i \in DOMAIN redirects :
            /\ redirects[i].ran <= 1
            /\ redirects[i].via # "raf" => redirects[i].ran = 0)
    /\ [][ /\ RedirectStep =>
                LET r == redirects'[Len(redirects')]
                IN  /\ UNCHANGED provider
                    /\ r.ran = 0
                    /\ \A i \in DOMAIN redirects : redirects'[i] = redirects[i]
                    /\ IF ~Resolves(r.loc) THEN r.via = "none"
                       ELSE IF Resolved(r.loc).origin = DocOrigin
                            THEN r.via = "raf" /\ r.href = Url_href(Resolved(r.loc))
                            ELSE r.via = "set_href" /\ r.href = Url_href(Resolved(r.loc))
           /\ \A i \in DOMAIN redirects :
                FrameStep(i) =>
                   /\ redirects[i].via = "raf"
                   /\ Len(navs') = Len(navs) + 1
                   /\ navs'[Len(navs')].new_url = UrlOfWeb(Resolved(redirects[i].loc))
                   /\ url' = navs'[Len(navs')].new_url
           /\ Len(navs') # Len(navs) => \E i \in DOMAIN redirects : FrameStep(i) ]_vars

\* C16 witness: a same-origin redirect's callback has run and made the one
\* navigate call there is, after a redirect to another site had called set_href.
C16_Witness ==
    /\ op.kind = "navigate"
    /\ Len(navs) = 1
    /\ Len(redirects) = 2
    /\ redirects[1].via = "set_href"
    /\ redirects[2].via = "raf"
    /\ redirects[2].ran = 1

\* The last conversion is browser_to_router_url applied to the result of
\* router_to_browser_url on the router-space Url call.orig.
RoundTrip ==
    /\ call.fn = "browser_to_router_url"
    /\ call.orig \in RouterUrls
    /\ call.arg # call.orig

\* C17: in hash mode, browser_to_router_url(router_to_browser_url(u)) equals u in
\* origin, path, search, search_params and hash, for every router-space Url u.
C17_HashConversionsLossless ==
    RoundTrip =>
        /\ call.ret.origin = call.orig.origin
        /\ call.ret.path = call.orig.path
        /\ call.ret.search = call.orig.search
        /\ call.ret.search_params = call.orig.search_params
        /\ call.ret.hash = call.orig.hash

\* C18: right after a complete_navigation call that has read current(), under
\* either provider, the URL signal, current() of the browser's current history
\* entry and the last path-stack entry are equal, also for targets with a query
\* or a fragment.
C18_CommitKeepsConsistent ==
    [][ \A n \in DOMAIN navs' :
          (CommitStep(n) /\ op'.ok) =>
             /\ url' = current(hist'[cur'].location)
             /\ url' = path_stack'[Len(path_stack')] ]_vars

\* C19: a complete_navigation call with change.scroll false does no scroll at
\* all; with change.scroll true it scrolls into view the element whose id is the
\* location's fragment when there is such an element, and scrolls the viewport to
\* the top otherwise.
C19_ScrollOnlyWhenSet ==
    [][ \A n \in DOMAIN navs' :
          CommitStep(n) =>
             LET frag == hist'[cur'].location.hash
             IN  IF ~navs'[n].loc.scroll THEN scrolled' = "none"
                 ELSE IF frag # <<>> /\ Tail(frag) \in Elements
                      THEN scrolled' = "into_view"
                      ELSE scrolled' = "top" ]_vars

\* The path p is absolute.
IsAbsolute(p) == p # <<>> /\ p[1] = "/"

\* C20: the Url browser_to_router_url returns has an absolute path, whatever the
\* fragment of the browser-space Url (none, "#", "#f", "#/f"), and so has every
\* value of the URL signal and every path-stack entry.
C20_RouterPathAbsolute ==
    /\ call.fn = "browser_to_router_url" => IsAbsolute(call.ret.path)
    /\ IsAbsolute(url.path)
    /\ \A i \in DOMAIN path_stack : IsAbsolute(path_stack[i].path)

\* The number of slashes p begins with, and the number it ends with.
LeadingSlashes(p) == Cardinality({i \in DOMAIN p : \A j \in 1..i : p[j] = "/"})

TrailingSlashes(p) == Cardinality({i \in DOMAIN p : \A j \in i..Len(p) : p[j] = "/"})

\* p without the slashes it begins with.
Stripped(p) == SubSeq(p, LeadingSlashes(p) + 1, Len(p))

\* p without the slashes it ends with, and p with them cut to one.
Core(p) == SubSeq(p, 1, Len(p) - TrailingSlashes(p))

OneTrailing(p) == Core(p) \o (IF TrailingSlashes(p) > 0 THEN <<"/">> ELSE <<>>)

\* normalize(p, false) has been applied.
Normalized == call.fn = "normalize" /\ ~call.arg[2]

\* C21: normalize is idempotent: normalize(normalize(p, false), false) equals
\* normalize(p, false) for every path p.
C21_NormalizeIdempotent ==
    (call.fn = "normalize_again" /\ ~call.orig[2]) =>
        call.ret = call.arg[1]

\* normalize has been applied to its own result, and its first application
\* had changed the path at both ends.
C21_Witness ==
    /\ call.fn = "normalize_again"
    /\ ~call.orig[2]
    /\ LeadingSlashes(call.orig[1]) > 0
    /\ TrailingSlashes(Stripped(call.orig[1])) > 1
    /\ call.ret = call.arg[1]

\* C22: for a path p whose part after the leading slashes is not empty and
\* begins with neither "?" nor "#", normalize(p, false) is one slash, the part
\* of p between its leading and its trailing slashes unchanged, and one slash
\* more exactly when p ended with a slash.
C22_NormalizeSlashes ==
    (/\ Normalized
     /\ Stripped(call.arg[1]) # <<>>
     /\ Stripped(call.arg[1])[1] \notin {"?", "#"}) =>
        /\ call.ret = <<"/">> \o OneTrailing(Stripped(call.arg[1]))
        /\ LeadingSlashes(call.ret) = 1
        /\ TrailingSlashes(call.ret) = IF TrailingSlashes(call.arg[1]) > 0 THEN 1 ELSE 0

\* normalize(p, false) has been applied to a path with no leading slash, an
\* interior slash and several trailing ones.
C22_Witness ==
    /\ Normalized
    /\ call.arg[1] = <<"a", "/", "/", "/">> \/ call.arg[1] = <<"a", "/", "a", "/">>
    /\ LeadingSlashes(call.ret) = 1
    /\ TrailingSlashes(call.ret) = 1

\* p begins with one slash and then "?" or "#".
SlashThenQueryOrHash(p) == Len(p) >= 2 /\ p[1] = "/" /\ p[2] \in {"?", "#"}

\* C23 as stated: for a path p that begins with "/?" or "/#", normalize(p, false)
\* is p with its leading slashes stripped and nothing else changed.
C23_QueryOnlyStripped ==
    (Normalized /\ SlashThenQueryOrHash(call.arg[1])) =>
        call.ret = Stripped(call.arg[1])

\* C23: for a path p that begins with "/?" or "/#", normalize(p, false) is p
\* with its leading slashes stripped and its trailing run of slashes cut to one;
\* no slash is put in front, so the result begins with "?" or "#".
C23_QueryNotPrefixed ==
    (Normalized /\ SlashThenQueryOrHash(call.arg[1])) =>
        /\ call.ret = OneTrailing(Stripped(call.arg[1]))
        /\ call.ret[1] = call.arg[1][2]

\* normalize(p, false) has been applied to "/?" or "/#" followed by several
\* slashes.
C23_Witness ==
    /\ Normalized
    /\ SlashThenQueryOrHash(call.arg[1])
    /\ TrailingSlashes(call.arg[1]) > 1
    /\ call.ret # Stripped(call.arg[1])

\* What the normalization rule makes of p: its leading slashes stripped, its
\* trailing run of slashes cut to one, and one slash in front unless the rest
\* is empty or begins with "?" or "#"; NormBare puts no slash in front.
NormBare(p) == OneTrailing(Stripped(p))

Norm(p) ==
    IF NormBare(p) = <<>> \/ NormBare(p)[1] \in {"?", "#"} THEN NormBare(p)
    ELSE <<"/">> \o NormBare(p)

\* The normalized path behind a prefix: behind "/" when the prefix is empty,
\* and then without a slash of its own.
Joined(prefix, path) ==
    IF prefix = <<>> THEN <<"/">> \o NormBare(path) ELSE prefix \o Norm(path)

\* p is scheme-qualified: it begins with "//", "tel:" or "mailto:", or "://"
\* follows a prefix of letters and digits only.
SchemeQualified(p) ==
    \/ IsPrefix(<<"/", "/">>, p)
    \/ IsPrefix(<<"t", "e", "l", ":">>, p)
    \/ IsPrefix(<<"m", "a", "i", "l", "t", "o", ":">>, p)
    \/ \E i \in DOMAIN p :
          /\ i + 2 <= Len(p)
          /\ SubSeq(p, i, i + 2) = <<":", "/", "/">>
          /\ \A j \in 1..(i - 1) : p[j] \in AsciiAlphanumeric

\* resolve_path has been applied; its arguments.
Resolving == call.fn = "resolve_path"
ArgBase == call.arg[1]
ArgPath == call.arg[2]
ArgFrom == call.arg[3]

\* The path argument begins with one slash only.
AbsolutePath == IsPrefix(<<"/">>, ArgPath) /\ ~IsPrefix(<<"/", "/">>, ArgPath)

\* The path argument is relative: no leading slash and no scheme.
RelativePath == ~IsPrefix(<<"/">>, ArgPath) /\ ~SchemeQualified(ArgPath)

\* C24: for a path with a single leading slash, resolve_path returns the
\* normalized base ("/" when that is empty) followed by the normalized path,
\* whatever `from` is, absent or present.
C24_AbsoluteIgnoresFrom ==
    (Resolving /\ AbsolutePath) =>
        /\ ~SchemeQualified(ArgPath)
        /\ call.ret = Joined(Norm(ArgBase), ArgPath)

\* resolve_path('/app', '/x', Some('/other')) has returned '/app/x'.
C24_Witness ==
    /\ Resolving
    /\ ArgBase = <<"/", "a", "p", "p">>
    /\ ArgPath = <<"/", "x">>
    /\ ArgFrom = Some(<<"/", "o", "t", "h", "e", "r">>)
    /\ call.ret = <<"/", "a", "p", "p", "/", "x">>

\* C25 as stated: for a relative path and a `from` whose normalized form starts
\* with the normalized base, resolve_path returns the normalized base followed
\* by the normalized path; resolve_path('/app', 'x', Some('/app/y')) = '/app/x'.
C25_RelativeNextToFrom ==
    (/\ Resolving
     /\ RelativePath
     /\ ArgFrom[1]
     /\ IsPrefix(Norm(ArgBase), Norm(ArgFrom[2]))) =>
        call.ret = Joined(Norm(ArgBase), ArgPath)

\* C25: for a relative path and a `from` whose normalized form starts with the
\* normalized base, resolve_path returns the normalized `from` ("/" when that is
\* empty) followed by the normalized path;
\* resolve_path('/app', 'x', Some('/app/y')) = '/app/y/x'.
C25_RelativeUnderFrom ==
    (/\ Resolving
     /\ RelativePath
     /\ ArgFrom[1]
     /\ IsPrefix(Norm(ArgBase), Norm(ArgFrom[2]))) =>
        call.ret = Joined(Norm(ArgFrom[2]), ArgPath)

\* resolve_path('/app', 'x', Some('/app/y')) has returned '/app/y/x'.
C25_Witness ==
    /\ Resolving
    /\ ArgBase = <<"/", "a", "p", "p">>
    /\ ArgPath = <<"x">>
    /\ ArgFrom = Some(<<"/", "a", "p", "p", "/", "y">>)
    /\ call.ret = <<"/", "a", "p", "p", "/", "y", "/", "x">>

\* The path argument holds "://" behind a character that is neither a letter
\* nor a digit, and begins with none of "//", "tel:" and "mailto:".
SchemeLookalike ==
    /\ str_find(ArgPath, <<":", "/", "/">>) > 1
    /\ ~SchemeQualified(ArgPath)

\* C26: resolve_path returns a scheme-qualified path character for character,
\* whatever base and `from` are; a path in which "://" follows a character that
\* is neither a letter nor a digit is resolved against the base: the result
\* begins with the normalized base ("/" when that is empty), and without
\* `from` it is that followed by the normalized path.
C26_SchemeUnchanged ==
    /\ (Resolving /\ SchemeQualified(ArgPath)) => call.ret = ArgPath
    /\ (Resolving /\ SchemeLookalike) =>
          /\ IsPrefix(IF Norm(ArgBase) = <<>> THEN <<"/">> ELSE Norm(ArgBase),
                      call.ret)
          /\ ArgFrom = None => call.ret = Joined(Norm(ArgBase), ArgPath)
    /\ (call.fn = "has_scheme") => (call.ret <=> SchemeQualified(ArgPath))

\* resolve_path has returned a path with a scheme of letters and digits as it
\* was, under a base and a `from` that are not empty.
C26_Witness ==
    /\ Resolving
    /\ str_find(ArgPath, <<":", "/", "/">>) > 1
    /\ SchemeQualified(ArgPath)
    /\ Norm(ArgBase) # <<>>
    /\ ArgFrom[1]
    /\ call.ret = ArgPath
    /\ Norm(ArgPath) # ArgPath

\* C29 as stated: for a relative path and a `from` that is present,
\* resolve_path returns normalize(base) + normalize(from) + normalize(path)
\* when the normalized `from` does not start with the normalized base, and
\* normalize(from) + normalize(path) when it does.
C29_FromEscapedBase ==
    (Resolving /\ RelativePath /\ ArgFrom[1]) =>
        IF ~IsPrefix(Norm(ArgBase), Norm(ArgFrom[2]))
        THEN call.ret = Norm(ArgBase) \o Norm(ArgFrom[2]) \o Norm(ArgPath)
        ELSE call.ret = Norm(ArgFrom[2]) \o Norm(ArgPath)

\* C29: for a relative path and a `from` that is present, resolve_path returns
\* normalize(base) + normalize(from) + normalize(path) when the normalized
\* `from` does not start with the normalized base; when it does, as a plain
\* string prefix, the result is normalize(from) + normalize(path), and "/"
\* followed by the path normalized without a slash of its own when
\* normalize(from) is empty.
C29_FromEscapedOrRoot ==
    (Resolving /\ RelativePath /\ ArgFrom[1]) =>
        IF ~IsPrefix(Norm(ArgBase), Norm(ArgFrom[2]))
        THEN call.ret = Norm(ArgBase) \o Norm(ArgFrom[2]) \o Norm(ArgPath)
        ELSE IF Norm(ArgFrom[2]) = <<>>
             THEN call.ret = <<"/">> \o NormBare(ArgPath)
             ELSE call.ret = Norm(ArgFrom[2]) \o Norm(ArgPath)

\* resolve_path has put the base in front of a `from` that had escaped it.
C29_Witness ==
    /\ Resolving
    /\ ArgBase = <<"/", "a", "p", "p">>
    /\ ArgPath = <<"x">>
    /\ ArgFrom = Some(<<"/", "o", "t", "h", "e", "r">>)
    /\ call.ret = <<"/", "a", "p", "p", "/", "o", "t", "h", "e", "r", "/", "x">>

\* resolve_path has taken a `from` that starts with the base in the middle of a
\* segment as it was.
C29_WitnessMidSegment ==
    /\ Resolving
    /\ ArgBase = <<"/", "a", "p", "p">>
    /\ ArgPath = <<"x">>
    /\ ArgFrom[1]
    /\ Len(ArgFrom[2]) > 6
    /\ ArgFrom[2][5] = "l"
    /\ call.ret = Norm(ArgFrom[2]) \o <<"/", "x">>

\* The last step was the ready_to_complete() call that took navigation n out of
\* the slot, with no navigate call after n and the URL signal still at n's URL.
ReadyFor(n) ==
    /\ op = Op("ready_to_complete", n, TRUE)
    /\ Len(navs) = n
    /\ navs[n].pc = "await"
    /\ url = navs[n].new_url

\* The last step was navigation n's task calling complete_navigation, and the
\* browser's current location is n's target.
Landed(n) ==
    /\ n \in DOMAIN navs
    /\ op.kind = "resume"
    /\ op.nav = n
    /\ commitLog # <<>>
    /\ commitLog[Len(commitLog)] = n
    /\ Location = BrowserSpace(navs[n].loc.value)

\* The last step was a popstate event, or a navigate call after n has been made.
Disturbed(n) == op.kind = "popstate" \/ Len(navs) > n

\* C27: after a navigate call to a URL of another origin or path and the
\* ready_to_complete() call that follows it, with no other navigate call and no
\* popstate event before the task resumes, and the task fairly scheduled,
\* complete_navigation is eventually called for the navigation and the browser's
\* current location becomes its target.
C27_PendingEventuallyCommits ==
    \A n \in 1..MaxNav : ReadyFor(n) ~> (Landed(n) \/ Disturbed(n))

\* The task of a navigation to another path has committed after its
\* ready_to_complete() call, and the browser is at its target.
C27_Witness ==
    /\ Landed(1)
    /\ ~navs[1].same_path
    /\ Len(navs) = 1
    /\ Len(hist) = 2
    /\ cur = 2

\* The last step was the task of a pending navigation calling
\* complete_navigation.
TaskJustCommitted == op.kind = "resume" /\ JustCommitted

\* C28: every navigate call leads to at most one complete_navigation call over
\* the whole run, and between two consecutive ready_to_complete() calls at most
\* one pending navigation's history mutation and path-stack append lands: the
\* tasks of two pending navigations never call complete_navigation in two
\* successive steps, with no ready_to_complete() call between them.
C28_OneCommitPerCycle ==
    /\ [](\A n \in DOMAIN navs : CommitsOf(commitLog, n) <= 1)
    /\ [][ \A n \in DOMAIN navs :
             (ResumeStep(n) /\ CommitStep(n)) => ~TaskJustCommitted ]_vars

\* A same-path navigate call has been made while navigation m was in the slot.
Overtaken(m) ==
    \E k \in DOMAIN navs : navs[k].same_path /\ navs[k].slot = m

\* C30: a same-path navigate call leaves the pending slot as it was: the
\* navigation pending before the call is not cancelled and stays armed; the next
\* ready_to_complete() call fires it, and its task then commits exactly when the
\* URL signal equals its URL.
C30_SamePathKeepsPending ==
    /\ [][ \A n \in DOMAIN navs' :
             (NavigateStep(n) /\ navs'[n].same_path) =>
                /\ pending_navigation' = pending_navigation
                /\ \A m \in DOMAIN navs : navs'[m] = navs[m] ]_vars
    /\ [][ \A m \in DOMAIN navs :
             (ReadyStep /\ pending_navigation = m /\ Overtaken(m)) =>
                /\ navs[m].chan = "armed"
                /\ navs'[m].chan = "fired"
                /\ pending_navigation' = 0 ]_vars
    /\ [][ \A m \in DOMAIN navs :
             (ResumeStep(m) /\ Overtaken(m) /\ navs[m].chan = "fired") =>
                (CommitStep(m) <=> url = navs[m].new_url) ]_vars

\* A pending navigation has committed after a same-path navigate call that was
\* made while it was pending, and after that call's own commit.
C30_Witness ==
    /\ Len(navs) = 2
    /\ navs[2].same_path
    /\ navs[2].slot = 1
    /\ navs[1].chan = "fired"
    /\ commitLog = <<2, 1>>
    /\ op.kind = "resume"

\* C31: a popstate event changes only the back-flag and the URL signal: the
\* pending slot, the channels, the path-stack and the entries of the browser
\* history stay as they are. A navigation that is pending when the event
\* delivers another Url than the one it proposed is still fired by the next
\* ready_to_complete() call, and its task, finding the signal at another Url,
\* does not commit: history, current entry and path-stack stay as the event
\* left them.
C31_PopstateLeavesPending ==
    /\ [][ PopstateStep =>
             /\ pending_navigation' = pending_navigation
             /\ navs' = navs
             /\ path_stack' = path_stack
             /\ hist' = hist
             /\ commitLog' = commitLog
             /\ scrolled' = scrolled
             /\ op'.ok => url' = current(hist'[cur'].location) ]_vars
    /\ [][ \A m \in DOMAIN navs :
             (ReadyStep /\ pending_navigation = m /\ url # navs[m].new_url) =>
                /\ navs'[m].chan = "fired"
                /\ pending_navigation' = 0
                /\ commitLog' = commitLog ]_vars
    /\ [][ \A m \in DOMAIN navs :
             (ResumeStep(m) /\ navs[m].chan = "fired" /\ url # navs[m].new_url) =>
                /\ ~CommitStep(m)
                /\ commitLog' = commitLog
                /\ hist' = hist
                /\ cur' = cur
                /\ path_stack' = path_stack
                /\ url' = url ]_vars

\* A popstate event has moved the signal to the Url of an earlier entry while
\* the last navigation was pending, and ready_to_complete() has then fired it.
C31_Witness ==
    /\ Len(navs) = MaxNav
    /\ op = Op("ready_to_complete", MaxNav, TRUE)
    /\ navs[MaxNav].chan = "fired"
    /\ navs[MaxNav].pc = "await"
    /\ pending_navigation = 0
    /\ url.path # navs[MaxNav].new_url.path
    /\ cur < Len(hist)
    /\ url = current(Location)

\* The task of the last navigation, fired while a popstate event had the
\* signal at the Url of an earlier entry, has run without a commit, and the
\* browser is on the entry the event selected.
C31_WitnessNoCommit ==
    /\ Len(navs) = MaxNav
    /\ op = Op("resume", MaxNav, TRUE)
    /\ ~navs[MaxNav].same_path
    /\ navs[MaxNav].chan = "fired"
    /\ CommitsOf(commitLog, MaxNav) = 0
    /\ url # navs[MaxNav].new_url
    /\ url.path # navs[MaxNav].new_url.path
    /\ cur < Len(hist)
    /\ url = current(Location)

\* C32: right after a construction that succeeded the URL signal equals
\* current(), the path-stack holds exactly that one Url, the pending slot is
\* empty and the back-flag is false; in every state the path-stack is not empty
\* and its length is 1 plus the number of complete_navigation calls made.
C32_Construction ==
    /\ op.kind = "new" =>
          /\ url = current(Location)
          /\ path_stack = <<url>>
          /\ pending_navigation = 0
          /\ ~is_back
    /\ path_stack # <<>>
    /\ Len(path_stack) = 1 + Len(commitLog)

====
